---- MODULE Spec2Model ----
(***************************************************************************)
(* Model of src/dominos.py: the Streamlit script's "Find Coupons" handler  *)
(* and scrape_store_by_address, the Selenium pipeline                      *)
(*   browser session -> city search -> store match -> coupon listing       *)
(*   -> '%' filter -> DataFrame.                                           *)
(* Text values are sequences of characters, so that lower(), the substring *)
(* test `in` and the f-string of line 109 are computed. An ASCII character *)
(* is a one-character string; a character above U+007F is written by its   *)
(* code point, so that the module is ASCII and reads the same under every  *)
(* character set: "U+00C9" is E with acute, "U+0152" the OE ligature. The  *)
(* texts modelled are over Basic Latin, Latin-1 Supplement and Latin       *)
(* Extended-A (U+0000 to U+017F).                                          *)
(***************************************************************************)
EXTENDS Naturals, Sequences, FiniteSets, TLC

(* ------------------------------ bounds ---------------------------------- *)
\* longest store list the search page returns in the model
MaxStores == 2
\* longest coupon listing the coupons page returns in the model
MaxCoupons == 2
(* ------------------------------ text ------------------------------------ *)
\* str.lower() on the upper-case ASCII letters (line 102)
LowerOf ==
    ("A" :> "a") @@ ("B" :> "b") @@ ("C" :> "c") @@ ("D" :> "d") @@
    ("E" :> "e") @@ ("F" :> "f") @@ ("G" :> "g") @@ ("H" :> "h") @@
    ("I" :> "i") @@ ("J" :> "j") @@ ("K" :> "k") @@ ("L" :> "l") @@
    ("M" :> "m") @@ ("N" :> "n") @@ ("O" :> "o") @@ ("P" :> "p") @@
    ("Q" :> "q") @@ ("R" :> "r") @@ ("S" :> "s") @@ ("T" :> "t") @@
    ("U" :> "u") @@ ("V" :> "v") @@ ("W" :> "w") @@ ("X" :> "x") @@
    ("Y" :> "y") @@ ("Z" :> "z")

\* str.lower() on the upper-case letters of Latin-1, U+00C0 to U+00DE (line 102)
LowerOfLatin1 ==
    ("U+00C0" :> "U+00E0") @@ ("U+00C1" :> "U+00E1") @@ ("U+00C2" :> "U+00E2") @@
    ("U+00C3" :> "U+00E3") @@ ("U+00C4" :> "U+00E4") @@ ("U+00C5" :> "U+00E5") @@
    ("U+00C6" :> "U+00E6") @@ ("U+00C7" :> "U+00E7") @@ ("U+00C8" :> "U+00E8") @@
    ("U+00C9" :> "U+00E9") @@ ("U+00CA" :> "U+00EA") @@ ("U+00CB" :> "U+00EB") @@
    ("U+00CC" :> "U+00EC") @@ ("U+00CD" :> "U+00ED") @@ ("U+00CE" :> "U+00EE") @@
    ("U+00CF" :> "U+00EF") @@ ("U+00D0" :> "U+00F0") @@ ("U+00D1" :> "U+00F1") @@
    ("U+00D2" :> "U+00F2") @@ ("U+00D3" :> "U+00F3") @@ ("U+00D4" :> "U+00F4") @@
    ("U+00D5" :> "U+00F5") @@ ("U+00D6" :> "U+00F6") @@ ("U+00D8" :> "U+00F8") @@
    ("U+00D9" :> "U+00F9") @@ ("U+00DA" :> "U+00FA") @@ ("U+00DB" :> "U+00FB") @@
    ("U+00DC" :> "U+00FC") @@ ("U+00DD" :> "U+00FD") @@ ("U+00DE" :> "U+00FE")


\* str.lower() on the upper-case letters of Latin Extended-A, U+0100 to
\* U+017F, whose lower case is one character (line 102)
LowerOfLatinExtendedA ==
    ("U+0100" :> "U+0101") @@ ("U+0102" :> "U+0103") @@ ("U+0104" :> "U+0105") @@
    ("U+0106" :> "U+0107") @@ ("U+0108" :> "U+0109") @@ ("U+010A" :> "U+010B") @@
    ("U+010C" :> "U+010D") @@ ("U+010E" :> "U+010F") @@ ("U+0110" :> "U+0111") @@
    ("U+0112" :> "U+0113") @@ ("U+0114" :> "U+0115") @@ ("U+0116" :> "U+0117") @@
    ("U+0118" :> "U+0119") @@ ("U+011A" :> "U+011B") @@ ("U+011C" :> "U+011D") @@
    ("U+011E" :> "U+011F") @@ ("U+0120" :> "U+0121") @@ ("U+0122" :> "U+0123") @@
    ("U+0124" :> "U+0125") @@ ("U+0126" :> "U+0127") @@ ("U+0128" :> "U+0129") @@
    ("U+012A" :> "U+012B") @@ ("U+012C" :> "U+012D") @@ ("U+012E" :> "U+012F") @@
    ("U+0132" :> "U+0133") @@ ("U+0134" :> "U+0135") @@ ("U+0136" :> "U+0137") @@
    ("U+0139" :> "U+013A") @@ ("U+013B" :> "U+013C") @@ ("U+013D" :> "U+013E") @@
    ("U+013F" :> "U+0140") @@ ("U+0141" :> "U+0142") @@ ("U+0143" :> "U+0144") @@
    ("U+0145" :> "U+0146") @@ ("U+0147" :> "U+0148") @@ ("U+014A" :> "U+014B") @@
    ("U+014C" :> "U+014D") @@ ("U+014E" :> "U+014F") @@ ("U+0150" :> "U+0151") @@
    ("U+0152" :> "U+0153") @@ ("U+0154" :> "U+0155") @@ ("U+0156" :> "U+0157") @@
    ("U+0158" :> "U+0159") @@ ("U+015A" :> "U+015B") @@ ("U+015C" :> "U+015D") @@
    ("U+015E" :> "U+015F") @@ ("U+0160" :> "U+0161") @@ ("U+0162" :> "U+0163") @@
    ("U+0164" :> "U+0165") @@ ("U+0166" :> "U+0167") @@ ("U+0168" :> "U+0169") @@
    ("U+016A" :> "U+016B") @@ ("U+016C" :> "U+016D") @@ ("U+016E" :> "U+016F") @@
    ("U+0170" :> "U+0171") @@ ("U+0172" :> "U+0173") @@ ("U+0174" :> "U+0175") @@
    ("U+0176" :> "U+0177") @@ ("U+0178" :> "U+00FF") @@ ("U+0179" :> "U+017A") @@
    ("U+017B" :> "U+017C") @@ ("U+017D" :> "U+017E")
\* str.lower() on a text of one character (line 102): an upper-case letter
\* becomes its lower-case letter, U+0130 (I with dot above) becomes the two
\* characters i and U+0307; digits, punctuation and lower-case letters stay
LowerChar(c) ==
    IF c \in DOMAIN LowerOf THEN << LowerOf[c] >>
    ELSE IF c \in DOMAIN LowerOfLatin1 THEN << LowerOfLatin1[c] >>
    ELSE IF c \in DOMAIN LowerOfLatinExtendedA THEN << LowerOfLatinExtendedA[c] >>
    ELSE IF c = "U+0130" THEN << "i", "U+0307" >>
    ELSE << c >>

\* the lower case of s[k], s[k+1], ... in one text
RECURSIVE LowerFrom(_, _)
LowerFrom(s, k) ==
    IF k > Len(s) THEN << >> ELSE LowerChar(s[k]) \o LowerFrom(s, k + 1)

\* str.lower() (line 102); the result can be longer than s
Lower(s) == LowerFrom(s, 1)

\* Python's `a in s` on strings (lines 102, 165); the empty string is in every string
Contains(a, s) ==
    \E k \in 1..(Len(s) + 1) :
        /\ k + Len(a) - 1 <= Len(s)
        /\ SubSeq(s, k, k + Len(a) - 1) = a

\* a case-sensitive comparison in place of line 102
StreetMatchesCaseSensitive(target, street_text) == Contains(target, street_text)

\* line 102: target_address.lower() in street_text.lower()
StreetMatches(target, street_text) == Contains(Lower(target), Lower(street_text))

\* a filter that lets every description through, in place of line 165
IsPercentCouponAlways(description_text) == TRUE

\* line 165: "%" in description_text
IsPercentCoupon(description_text) == Contains(<<"%">>, description_text)

\* the address without the city, in place of line 109
FullAddressStreetOnly(street_text, city_text) == street_text

\* line 109: f"{street_text}, {city_element.text}"
FullAddress(street_text, city_text) == street_text \o <<",", " ">> \o city_text

\* the literal of line 172
NA == <<"N", "/", "A">>

(* --------------------------- upstream data ------------------------------ *)
\* what the user may have typed in the sidebar when the button is pressed
\* (line 203, read again on every run of the script); line 207 rejects ""
AddressInputs == { <<"b", "U+00E9">>, <<"U+00E9">> }

\* one store container: which of its three elements exist (lines 98, 104,
\* 108), the street text, the data-id of the carryout button, the city text
Store(hasStreet, street, hasButton, id, hasCity, city) ==
    [hasStreet |-> hasStreet, street |-> street,
     hasButton |-> hasButton, id |-> id,
     hasCity |-> hasCity, city |-> city]

StoreContainers ==
    { Store(FALSE, <<>>, TRUE, "4000", TRUE, <<"M">>),
      Store(TRUE, <<"2", "U+00C9">>, TRUE, "4001", TRUE, <<"M">>),
      Store(TRUE, <<"B", "U+00C9">>, TRUE, "4002", TRUE, <<"L">>),
      Store(TRUE, <<"B", "U+00C9">>, FALSE, "", TRUE, <<"M">>),
      Store(TRUE, <<"B", "U+00C9">>, TRUE, "4004", FALSE, <<>>) }

\* one div.local-coupon__container
Coupon(hasDesc, desc, hasAnchor, code, hasPrice, price) ==
    [hasDesc |-> hasDesc, desc |-> desc, hasAnchor |-> hasAnchor, code |-> code,
     hasPrice |-> hasPrice, price |-> price]

CouponContainers ==
    { Coupon(FALSE, <<>>, TRUE, "X0", FALSE, <<>>),
      Coupon(TRUE, <<"F">>, TRUE, "X1", FALSE, <<>>),
      Coupon(TRUE, <<"2", "%">>, TRUE, "A1", TRUE, <<"$", "5">>),
      Coupon(TRUE, <<"2", "%">>, FALSE, "", TRUE, <<"$", "5">>),
      Coupon(TRUE, <<"5", "%">>, TRUE, "A2", FALSE, <<>>) }

\* presence_of_all_elements_located returns a non-empty list or times out
NonEmptySeqs(S, n) == UNION { [1..k -> S] : k \in 1..n }

(* ------------------------------ state ----------------------------------- *)
VARIABLES
    site,               \* what dominos.ca serves: [stores, coupons]
    pc,                 \* the statement scrape_store_by_address is at
    target_address,     \* parameter of scrape_store_by_address
    driver,             \* the session of line 49: "unbound", "open", "quit", or
                        \* "quit_raised" when driver.quit() raised
    store_containers,   \* line 85
    coupon_containers,  \* line 155
    i,                  \* position of the loop of line 95
    j,                  \* position of the loop of line 160
    target_store,       \* lines 89, 111
    store_full_address, \* lines 90, 109
    coupons_data,       \* line 52
    status_text,        \* the last message given to status_text.text
    progress,           \* the last value given to progress_bar.progress
    ret,                \* how the invocation ended: the return line, or 0 for a raise
    earlier,            \* address and ret of the last invocation before this
                        \* one that returned by line 124, 197 or 199
    calls               \* per invocation: how often each acquisition step ran

vars == << site, pc, target_address, driver,
           store_containers, coupon_containers, i, j, target_store,
           store_full_address, coupons_data, status_text, progress, ret,
           earlier, calls >>

Steps == { "get_driver", "driver_get", "carryout_option", "city_search",
           "search_button", "store_wait", "store_click", "coupons_tile",
           "find_coupon", "coupon_wait", "quit" }

\* target_store = None (line 89)
None == [found |-> FALSE, container |-> 0, id |-> "", button |-> 0, address |-> <<>>]

\* nothing returned yet
NoRet == [outcome |-> "running", line |-> 0, table |-> <<>>]

Init ==
    /\ site \in [stores : NonEmptySeqs(StoreContainers, MaxStores),
                 coupons : NonEmptySeqs(CouponContainers, MaxCoupons)]
    /\ pc = "idle"
    /\ target_address = <<>>
    /\ driver = "unbound"
    /\ store_containers = <<>>
    /\ coupon_containers = <<>>
    /\ i = 0
    /\ j = 0
    /\ target_store = None
    /\ store_full_address = <<>>
    /\ coupons_data = <<>>
    /\ status_text = ""
    /\ progress = 0
    /\ ret = NoRet
    /\ earlier = [address |-> <<>>, ret |-> NoRet]
    /\ calls = [s \in Steps |-> 0]

(* --------------------------- shared fragments --------------------------- *)
\* a finally block that forgets the session, in place of line 193
QuitSessionLeak(d) == {d}

\* line 193: what driver.quit() can make of the session d of line 49: the
\* call returns and the session is gone, or the call raises (the browser or
\* chromedriver does not answer) and the session is in no known state
QuitSession(d) == {"quit", "quit_raised"}

\* pd.DataFrame(rows): one row per dict, in list order; pd.DataFrame() has none
DataFrame(rows) == [k \in 1..Len(rows) |-> rows[k]]

\* the steps S each ran once more
Count(S) == calls' = [s \in Steps |-> IF s \in S THEN calls[s] + 1 ELSE calls[s]]

\* control leaves scrape_store_by_address
Returns(outcome, line, table) ==
    /\ ret' = [outcome |-> outcome, line |-> line, table |-> table]
    /\ pc' = "done"

\* lines 192-193: the finally block with driver bound to d, entered on the
\* way out (a return at `line` of `table`, or an exception); when
\* driver.quit() raises, its exception leaves the function instead
Finally(d, outcome, line, table) ==
    \E q \in QuitSession(d) :
        /\ driver' = q
        /\ IF q = "quit_raised"
           THEN Returns("raised", 0, <<>>)
           ELSE Returns(outcome, line, table)

\* lines 189-193: the handler of the outer try, then the finally block
ErrorExit ==
    /\ status_text' = "An error occurred"
    /\ Finally(driver, "returned", 191, DataFrame(<<>>))

\* an acquisition step inside the try raises (timeout, navigation, session error)
Fails(step) ==
    /\ Count({step, "quit"})
    /\ ErrorExit
    /\ UNCHANGED << site, target_address, store_containers,
                    coupon_containers, i, j, target_store, store_full_address,
                    coupons_data, progress, earlier >>

\* an acquisition step succeeds and the statements up to the next step run
Passes(step, next, msg, prog) ==
    /\ Count({step})
    /\ status_text' = msg
    /\ progress' = prog
    /\ pc' = next
    /\ UNCHANGED << site, target_address, driver,
                    ret, earlier >>

\* lines 54-193: a call of status_text.text or progress_bar.progress inside
\* the try raises a BaseException (the rerun or stop request of Streamlit,
\* which is raised inside its calls). `except Exception` of lines 183 and 189
\* does not take it: the finally block quits the session d and the exception
\* leaves the function. S are the acquisition steps that ran before the call,
\* msg and prog the last message and progress value that were shown
Leaves(S, d, msg, prog) ==
    /\ Count(S \cup {"quit"})
    /\ Finally(d, "raised", 0, <<>>)
    /\ status_text' = msg
    /\ progress' = prog
    /\ UNCHANGED << site, target_address, earlier >>

(* ------------------------------ actions --------------------------------- *)
\* lines 203-217: the script runs with the button pressed; the text of the
\* sidebar is read (line 203) and the function is entered with it;
\* its locals are unbound
Invoke ==
    /\ pc \in {"idle", "done"}
    /\ \E address_input \in AddressInputs : target_address' = address_input
    /\ earlier' = IF ret.line \in {124, 197, 199}
                  THEN [address |-> target_address, ret |-> ret]
                  ELSE earlier
    /\ status_text' = "Starting search..."
    /\ progress' = 0
    /\ pc' = "setup"
    /\ driver' = "unbound"
    /\ store_containers' = <<>>
    /\ coupon_containers' = <<>>
    /\ i' = 0
    /\ j' = 0
    /\ target_store' = None
    /\ store_full_address' = <<>>
    /\ ret' = NoRet
    /\ calls' = [s \in Steps |-> 0]
    /\ coupons_data' = <<>>
    /\ UNCHANGED site

\* lines 206-215: the script runs with the button pressed and line 209, 212
\* or 215 raises a BaseException before line 217: the function is not
\* entered. When line 212 or 215 raises, st.progress(0) of line 209 has shown 0
PressInterrupted ==
    /\ pc \in {"idle", "done"}
    /\ \E line \in {209, 212, 215} :
           progress' = IF line = 209 THEN progress ELSE 0
    /\ UNCHANGED << site, pc, target_address, driver, store_containers,
                    coupon_containers, i, j, target_store, store_full_address,
                    coupons_data, status_text, ret, earlier, calls >>

\* lines 46-47: the first status message and progress value
Setup ==
    /\ pc = "setup"
    /\ status_text' = "Setting up the WebDriver..."
    /\ progress' = 10
    /\ pc' = "get_driver"
    /\ UNCHANGED << site, target_address, driver,
                    store_containers, coupon_containers, i, j, target_store,
                    store_full_address, coupons_data, ret, earlier, calls >>

\* lines 46-47: one of the two Streamlit calls raises a BaseException (a rerun
\* or stop request) before any session exists; it leaves the function. When
\* line 47 raises, line 46 has shown its message
SetupRaises ==
    /\ pc = "setup"
    /\ \E line \in {46, 47} :
           status_text' = IF line = 46 THEN status_text
                          ELSE "Setting up the WebDriver..."
    /\ Returns("raised", 0, <<>>)
    /\ UNCHANGED << site, target_address, driver,
                    store_containers, coupon_containers, i, j, target_store,
                    store_full_address, coupons_data, progress,
                    earlier, calls >>

\* lines 49-57 with the list kept across invocations (in st.session_state,
\* say) in place of line 52: the records of an earlier invocation are in it
GetDriverKeepsData ==
    /\ pc = "get_driver"
    /\ Count({"get_driver"})
    /\ driver' = "open"
    /\ coupons_data' = earlier.ret.table
    /\ status_text' = "Navigating to Dominos website..."
    /\ progress' = 20
    /\ pc' = "driver_get"
    /\ UNCHANGED << site, target_address, store_containers,
                    coupon_containers, i, j, target_store, store_full_address,
                    ret, earlier >>

\* lines 49-57: get_driver returns a new session; coupons_data = []
GetDriver ==
    /\ pc = "get_driver"
    /\ Count({"get_driver"})
    /\ driver' = "open"
    /\ coupons_data' = <<>>
    /\ status_text' = "Navigating to Dominos website..."
    /\ progress' = 20
    /\ pc' = "driver_get"
    /\ UNCHANGED << site, target_address, store_containers,
                    coupon_containers, i, j, target_store, store_full_address,
                    ret, earlier >>

\* line 49 (20-31): webdriver.Chrome raises; the call is outside the try of
\* line 54, so the exception leaves scrape_store_by_address
GetDriverRaises ==
    /\ pc = "get_driver"
    /\ Count({"get_driver"})
    /\ Returns("raised", 0, <<>>)
    /\ UNCHANGED << site, target_address, driver,
                    store_containers, coupon_containers, i, j, target_store,
                    store_full_address, coupons_data, status_text, progress,
                    earlier >>

\* lines 49-57: the session is there and coupons_data = [], then line 56 or
\* line 57 raises a BaseException
GetDriverInterrupted ==
    /\ pc = "get_driver"
    /\ coupons_data' = <<>>
    /\ \E line \in {56, 57} :
           Leaves({"get_driver"}, "open",
                  IF line = 56 THEN status_text
                  ELSE "Navigating to Dominos website...",
                  progress)
    /\ UNCHANGED << store_containers, coupon_containers, i, j, target_store,
                    store_full_address >>

\* lines 58-59: driver.get(...)
DriverGet ==
    /\ pc = "driver_get"
    /\ \/ /\ Passes("driver_get", "carryout_option", status_text, progress)
          /\ UNCHANGED << store_containers, coupon_containers, i, j, target_store,
                          store_full_address, coupons_data >>
       \/ Fails("driver_get")

\* lines 61-68: wait for span.Carryout and click it
CarryoutOption ==
    /\ pc = "carryout_option"
    /\ \/ /\ Passes("carryout_option", "city_search",
                    "Searching for Montreal, QC locations...", 30)
          /\ UNCHANGED << store_containers, coupon_containers, i, j, target_store,
                          store_full_address, coupons_data >>
       \/ Fails("carryout_option")

\* lines 61-68: the click is done, then line 67 or line 68 raises a BaseException
CarryoutOptionInterrupted ==
    /\ pc = "carryout_option"
    /\ \E line \in {67, 68} :
           Leaves({"carryout_option"}, driver,
                  IF line = 67 THEN status_text
                  ELSE "Searching for Montreal, QC locations...",
                  progress)
    /\ UNCHANGED << store_containers, coupon_containers, i, j, target_store,
                    store_full_address, coupons_data >>

\* lines 69-74: wait for #cityFinder, clear it, type the city
CitySearch ==
    /\ pc = "city_search"
    /\ \/ /\ Passes("city_search", "search_button", status_text, progress)
          /\ UNCHANGED << store_containers, coupon_containers, i, j, target_store,
                          store_full_address, coupons_data >>
       \/ Fails("city_search")

\* lines 77-82: wait for the search button and click it
SearchButton ==
    /\ pc = "search_button"
    /\ \/ /\ Passes("search_button", "store_wait", status_text, 40)
          /\ UNCHANGED << store_containers, coupon_containers, i, j, target_store,
                          store_full_address, coupons_data >>
       \/ Fails("search_button")

\* lines 77-82: the click is done, then line 82 raises a BaseException
SearchButtonInterrupted ==
    /\ pc = "search_button"
    /\ Leaves({"search_button"}, driver, status_text, progress)
    /\ UNCHANGED << store_containers, coupon_containers, i, j, target_store,
                    store_full_address, coupons_data >>

\* lines 85-94: wait for the store containers; target_store = None
StoreWait ==
    /\ pc = "store_wait"
    /\ \/ /\ Passes("store_wait", "store_loop",
                    "Looking for store with address containing", 50)
          /\ store_containers' = site.stores
          /\ target_store' = None
          /\ store_full_address' = <<>>
          /\ i' = 1
          /\ UNCHANGED << coupon_containers, j, coupons_data >>
       \/ Fails("store_wait")

\* lines 85-94: the containers are there and target_store = None, then
\* line 93 or line 94 raises a BaseException; the loop of line 95 is not entered
StoreWaitInterrupted ==
    /\ pc = "store_wait"
    /\ store_containers' = site.stores
    /\ target_store' = None
    /\ store_full_address' = <<>>
    /\ \E line \in {93, 94} :
           Leaves({"store_wait"}, driver,
                  IF line = 93 THEN status_text
                  ELSE "Looking for store with address containing",
                  progress)
    /\ UNCHANGED << coupon_containers, i, j, coupons_data >>

\* `not target_store` always false, in place of line 122
IsNoneNever(ts) == FALSE

\* line 122: not target_store
IsNone(ts) == ~ts.found

\* lines 95-120: one pass of `for container in store_containers`
StoreLoop ==
    /\ pc = "store_loop"
    /\ i <= Len(store_containers)
    /\ LET container == store_containers[i]
           \* line 98 found the street and line 102 holds
           matched == /\ container.hasStreet
                      /\ StreetMatches(target_address, container.street)
           \* lines 104 and 108 found the button and the city
           complete == container.hasButton /\ container.hasCity
       IN  IF matched /\ complete
           THEN \* lines 105-118: the store is taken and the loop is left
                /\ store_full_address' = FullAddress(container.street, container.city)
                /\ target_store' =
                       [found |-> TRUE, container |-> i, id |-> container.id,
                        button |-> i,
                        address |-> FullAddress(container.street, container.city)]
                /\ status_text' = "Found target store"
                /\ i' = i
                /\ pc' = "after_store_loop"
           ELSE \* no match, or lines 119-120: continue
                /\ i' = i + 1
                /\ pc' = IF i = Len(store_containers)
                         THEN "after_store_loop" ELSE "store_loop"
                /\ UNCHANGED << store_full_address, target_store, status_text >>
    /\ UNCHANGED << site, target_address, driver,
                    store_containers, coupon_containers, j, coupons_data,
                    progress, ret, earlier, calls >>

\* lines 98-108 raise something line 119 does not name (the session died):
\* the outer handler of line 189 takes it
StoreLoopRaises ==
    /\ pc = "store_loop"
    /\ i <= Len(store_containers)
    /\ Count({"quit"})
    /\ ErrorExit
    /\ UNCHANGED << site, target_address, store_containers,
                    coupon_containers, i, j, target_store, store_full_address,
                    coupons_data, progress, earlier >>

\* lines 95-117: the store is taken (lines 109-116), then line 117 raises a
\* BaseException, which line 119 does not name
StoreLoopInterrupted ==
    /\ pc = "store_loop"
    /\ i <= Len(store_containers)
    /\ LET container == store_containers[i]
       IN  /\ container.hasStreet
           /\ StreetMatches(target_address, container.street)
           /\ container.hasButton /\ container.hasCity
           /\ store_full_address' = FullAddress(container.street, container.city)
           /\ target_store' =
                  [found |-> TRUE, container |-> i, id |-> container.id,
                   button |-> i,
                   address |-> FullAddress(container.street, container.city)]
    /\ Leaves({}, driver, status_text, progress)
    /\ UNCHANGED << store_containers, coupon_containers, i, j, coupons_data >>

\* lines 122-128: no store -> return an empty frame (through the finally block)
AfterStoreLoop ==
    /\ pc = "after_store_loop"
    /\ IF IsNone(target_store)
       THEN /\ status_text' = "No store found with address containing"
            /\ Finally(driver, "returned", 124, DataFrame(<<>>))
            /\ Count({"quit"})
            /\ UNCHANGED progress
       ELSE /\ status_text' = "Selecting store"
            /\ progress' = 60
            /\ pc' = "store_click"
            /\ UNCHANGED << driver, calls, ret >>
    /\ UNCHANGED << site, target_address, store_containers,
                    coupon_containers, i, j, target_store, store_full_address,
                    coupons_data, earlier >>

\* lines 122-128: line 123 raises a BaseException when no store was taken,
\* line 127 or line 128 when one was
AfterStoreLoopInterrupted ==
    /\ pc = "after_store_loop"
    /\ \E line \in IF IsNone(target_store) THEN {123} ELSE {127, 128} :
           Leaves({}, driver,
                  IF line = 128 THEN "Selecting store" ELSE status_text,
                  progress)
    /\ UNCHANGED << store_containers, coupon_containers, i, j, target_store,
                    store_full_address, coupons_data >>

\* lines 129-134: click the carryout button of the target store
StoreClick ==
    /\ pc = "store_click"
    /\ \/ /\ Passes("store_click", "coupons_tile", "Navigating to coupons page...", 70)
          /\ UNCHANGED << store_containers, coupon_containers, i, j, target_store,
                          store_full_address, coupons_data >>
       \/ Fails("store_click")

\* lines 129-134: the click is done, then line 132 or line 134 raises a BaseException
StoreClickInterrupted ==
    /\ pc = "store_click"
    /\ \E line \in {132, 134} :
           Leaves({"store_click"}, driver,
                  IF line = 132 THEN status_text
                  ELSE "Navigating to coupons page...",
                  progress)
    /\ UNCHANGED << store_containers, coupon_containers, i, j, target_store,
                    store_full_address, coupons_data >>

\* lines 137-140: wait for the Coupons tile and click it
CouponsTile ==
    /\ pc = "coupons_tile"
    /\ \/ /\ Passes("coupons_tile", "find_coupon", status_text, progress)
          /\ UNCHANGED << store_containers, coupon_containers, i, j, target_store,
                          store_full_address, coupons_data >>
       \/ Fails("coupons_tile")

\* lines 143-154: wait for "Find a Coupon" and click it
FindCoupon ==
    /\ pc = "find_coupon"
    /\ \/ /\ Passes("find_coupon", "coupon_wait",
                    "Finding percentage discount coupons...", 80)
          /\ UNCHANGED << store_containers, coupon_containers, i, j, target_store,
                          store_full_address, coupons_data >>
       \/ Fails("find_coupon")

\* lines 143-154: the click is done, then line 149, 151 or 154 raises a BaseException
FindCouponInterrupted ==
    /\ pc = "find_coupon"
    /\ \E line \in {149, 151, 154} :
           Leaves({"find_coupon"}, driver,
                  IF line = 149 THEN status_text
                  ELSE "Waiting for coupons to load...",
                  IF line = 154 THEN 80 ELSE progress)
    /\ UNCHANGED << store_containers, coupon_containers, i, j, target_store,
                    store_full_address, coupons_data >>

\* lines 155-157: wait for the coupon containers
CouponWait ==
    /\ pc = "coupon_wait"
    /\ \/ /\ Passes("coupon_wait", "coupon_loop", status_text, progress)
          /\ coupon_containers' = site.coupons
          /\ j' = 1
          /\ UNCHANGED << store_containers, i, target_store, store_full_address,
                          coupons_data >>
       \/ Fails("coupon_wait")

\* a price lookup that yields the empty text when the element is absent,
\* in place of lines 168-172
PriceOrEmpty(coupon) == coupon.price

\* lines 168-172: the price element's text, or "N/A" when the lookup raises
Price(coupon) == IF coupon.hasPrice THEN coupon.price ELSE NA

\* lines 162 or 166 raise: the description or the anchor is not there
EntryRaises(coupon) ==
    \/ ~coupon.hasDesc
    \/ IsPercentCoupon(coupon.desc) /\ ~coupon.hasAnchor

\* lines 175-180: the record of a coupon
Record(coupon) ==
    [address |-> store_full_address,
     description |-> coupon.desc,
     code |-> coupon.code,
     price |-> Price(coupon)]

\* the loop of line 160 without its try: the exception of an entry reaches
\* the handler of line 189
CouponLoopAborts ==
    /\ pc = "coupon_loop"
    /\ j <= Len(coupon_containers)
    /\ LET coupon == coupon_containers[j]
       IN  IF EntryRaises(coupon)
           THEN /\ Count({"quit"})
                /\ ErrorExit
                /\ UNCHANGED << j, coupons_data >>
           ELSE /\ j' = j + 1
                /\ IF IsPercentCoupon(coupon.desc)
                   THEN /\ coupons_data' = Append(coupons_data, Record(coupon))
                        /\ status_text' = "Found coupon"
                   ELSE UNCHANGED << coupons_data, status_text >>
                /\ UNCHANGED << pc, driver, ret, calls >>
    /\ UNCHANGED << site, target_address, store_containers,
                    coupon_containers, i, target_store, store_full_address,
                    progress, earlier >>

\* lines 160-184: one pass of `for coupon in coupon_containers`
CouponLoop ==
    /\ pc = "coupon_loop"
    /\ j <= Len(coupon_containers)
    /\ LET coupon == coupon_containers[j]
       IN  IF EntryRaises(coupon)
           THEN \* lines 183-184
                /\ status_text' = "Error processing a coupon"
                /\ UNCHANGED coupons_data
           ELSE IF IsPercentCoupon(coupon.desc)
           THEN \* lines 166-182
                /\ coupons_data' = Append(coupons_data, Record(coupon))
                /\ status_text' = "Found coupon"
           ELSE UNCHANGED << coupons_data, status_text >>
    /\ j' = j + 1
    /\ UNCHANGED << site, pc, target_address, driver,
                    store_containers, coupon_containers, i, target_store,
                    store_full_address, progress, ret, earlier, calls >>

\* lines 160-184: line 184 raises a BaseException in the handler of a failing
\* entry, or line 182 raises one after the record was appended (line 175)
CouponLoopInterrupted ==
    /\ pc = "coupon_loop"
    /\ j <= Len(coupon_containers)
    /\ LET coupon == coupon_containers[j]
       IN  /\ EntryRaises(coupon) \/ IsPercentCoupon(coupon.desc)
           /\ coupons_data' = IF EntryRaises(coupon) THEN coupons_data
                              ELSE Append(coupons_data, Record(coupon))
    /\ Leaves({}, driver, status_text, progress)
    /\ UNCHANGED << store_containers, coupon_containers, i, j, target_store,
                    store_full_address >>

\* lines 186-199: the loop is over; finally; the frame of coupons_data
CouponLoopDone ==
    /\ pc = "coupon_loop"
    /\ j > Len(coupon_containers)
    /\ progress' = 100
    /\ status_text' = "Found percentage coupons"
    /\ Count({"quit"})
    /\ IF coupons_data # <<>>
       THEN Finally(driver, "returned", 197, DataFrame(coupons_data))
       ELSE Finally(driver, "returned", 199, DataFrame(<<>>))
    /\ UNCHANGED << site, target_address, store_containers,
                    coupon_containers, i, j, target_store, store_full_address,
                    coupons_data, earlier >>

\* lines 186-187: the loop is over, then line 186 or line 187 raises a BaseException
CouponLoopDoneInterrupted ==
    /\ pc = "coupon_loop"
    /\ j > Len(coupon_containers)
    /\ \E line \in {186, 187} :
           Leaves({}, driver, status_text,
                  IF line = 186 THEN progress ELSE 100)
    /\ UNCHANGED << store_containers, coupon_containers, i, j, target_store,
                    store_full_address, coupons_data >>

\* the statements of the try whose exception the handler of line 189 takes
HandlerPcs == { "driver_get", "carryout_option", "city_search", "search_button",
                "store_wait", "store_loop", "store_click", "coupons_tile",
                "find_coupon", "coupon_wait" }

\* lines 189-193: a step raises, the handler of line 189 is entered and its
\* line 190 raises a BaseException: the finally block runs, the exception leaves
ErrorExitInterrupted ==
    /\ pc \in HandlerPcs
    /\ pc = "store_loop" => i <= Len(store_containers)
    /\ Leaves({pc} \cap Steps, driver, status_text, progress)
    /\ UNCHANGED << store_containers, coupon_containers, i, j, target_store,
                    store_full_address, coupons_data >>

Next ==
    \/ Invoke
    \/ PressInterrupted
    \/ Setup
    \/ SetupRaises
    \/ GetDriver
    \/ GetDriverRaises
    \/ GetDriverInterrupted
    \/ DriverGet
    \/ CarryoutOption
    \/ CarryoutOptionInterrupted
    \/ CitySearch
    \/ SearchButton
    \/ SearchButtonInterrupted
    \/ StoreWait
    \/ StoreWaitInterrupted
    \/ StoreLoop
    \/ StoreLoopRaises
    \/ StoreLoopInterrupted
    \/ AfterStoreLoop
    \/ AfterStoreLoopInterrupted
    \/ StoreClick
    \/ StoreClickInterrupted
    \/ CouponsTile
    \/ FindCoupon
    \/ FindCouponInterrupted
    \/ CouponWait
    \/ CouponLoop
    \/ CouponLoopInterrupted
    \/ CouponLoopDone
    \/ CouponLoopDoneInterrupted
    \/ ErrorExitInterrupted

Spec == Init /\ [][Next]_vars

(* ------------------------- reference definitions ------------------------ *)
\* a occurs in s when letter case is ignored
FoldedContains(a, s) ==
    \E k \in 0..Len(s) :
        /\ k + Len(a) <= Len(s)
        /\ \A m \in 1..Len(a) : LowerChar(a[m]) = LowerChar(s[k + m])

\* the container shows a street text that contains the address
StreetContains(container) ==
    container.hasStreet /\ FoldedContains(target_address, container.street)

\* street, carryout button and city of the container can all be read
Readable(container) ==
    container.hasStreet /\ container.hasButton /\ container.hasCity

\* the loop of line 95 is over: a store was taken or the list is exhausted
MatchingDone ==
    /\ store_containers # <<>>
    /\ target_store.found \/ i > Len(store_containers)

\* the smallest member of a non-empty set of numbers
Least(S) == CHOOSE k \in S : \A m \in S : k <= m

\* the text holds a percent sign
HasPercentSign(text) == \E k \in 1..Len(text) : text[k] = "%"

\* the entry shows a description with a percent sign
PercentEntry(coupon) == coupon.hasDesc /\ HasPercentSign(coupon.desc)

\* the entry is a percent entry whose anchor can be read
Qualifies(coupon) == PercentEntry(coupon) /\ coupon.hasAnchor

\* description or anchor of the entry cannot be read
Malformed(coupon) == ~coupon.hasDesc \/ (PercentEntry(coupon) /\ ~coupon.hasAnchor)

\* the invocation ended with the exception of get_driver (line 49)
GetDriverRaised ==
    /\ pc = "done"
    /\ ret.outcome = "raised"
    /\ calls["get_driver"] = 1
    /\ driver = "unbound"

\* the invocation ran to line 197 or 199
Completed == pc = "done" /\ ret.line \in {197, 199}

Descriptions(rows) == [k \in 1..Len(rows) |-> rows[k].description]

EntryDescriptions(entries) == [k \in 1..Len(entries) |-> entries[k].desc]

(* ------------------------------- C1 ------------------------------------- *)
\* C1 as stated: when the store loop is over, the store taken is the first
\* container whose street text contains the address (case ignored), no later
\* container was examined, and no store is taken only if no street contains it.
C1_FirstStreetMatch ==
    MatchingDone =>
        LET M == { k \in 1..Len(store_containers) :
                       StreetContains(store_containers[k]) }
        IN  IF M # {}
            THEN /\ target_store.found
                 /\ target_store.container = Least(M)
                 /\ i = Least(M)
            ELSE ~target_store.found

\* C1 amended: when the store loop is over, the store taken is the first
\* container whose street text contains the address (case ignored) and whose
\* carryout button and city can be read; the loop stopped at it; no store is
\* taken exactly when no container is both matching and readable.
C1_FirstReadableStreetMatch ==
    MatchingDone =>
        LET M == { k \in 1..Len(store_containers) :
                       /\ StreetContains(store_containers[k])
                       /\ Readable(store_containers[k]) }
        IN  IF M # {}
            THEN /\ target_store.found
                 /\ target_store.container = Least(M)
                 /\ i = Least(M)
            ELSE /\ ~target_store.found
                 /\ i = Len(store_containers) + 1

\* the first container matches but its carryout button is missing; the second
\* is taken, on a street that matches only when case is ignored
C1_Witness ==
    /\ MatchingDone
    /\ StreetContains(store_containers[1])
    /\ ~store_containers[1].hasButton
    /\ target_store.found
    /\ target_store.container = 2
    /\ ~Contains(target_address, store_containers[2].street)

(* ------------------------------- C2 ------------------------------------- *)
\* C2 as stated: the records of a completed invocation are exactly the
\* listing entries whose description contains '%', in listing order.
C2_ExactlyPercentEntries ==
    Completed =>
        Descriptions(ret.table) =
            EntryDescriptions(SelectSeq(coupon_containers, PercentEntry))

\* C2 amended: the records of a completed invocation are exactly the listing
\* entries whose description can be read and contains '%' and whose anchor
\* can be read, in listing order, each with its description and code.
C2_ExactlyReadablePercentEntries ==
    Completed =>
        LET Q == SelectSeq(coupon_containers, Qualifies)
        IN  /\ Len(ret.table) = Len(Q)
            /\ \A k \in 1..Len(Q) :
                   /\ ret.table[k].description = Q[k].desc
                   /\ ret.table[k].code = Q[k].code

\* a listing of a percent entry that is recorded and a percent entry whose
\* anchor cannot be read: the first is the only record returned
C2_Witness ==
    /\ Completed
    /\ Len(coupon_containers) = 2
    /\ Qualifies(coupon_containers[1])
    /\ PercentEntry(coupon_containers[2])
    /\ ~coupon_containers[2].hasAnchor
    /\ Len(ret.table) = 1
    /\ ret.table[1].code = coupon_containers[1].code

(* ------------------------------- C3 ------------------------------------- *)
\* C3: an invocation ended by an acquisition failure, at session setup
\* (line 49) or at a step inside the try, has returned an empty frame to the
\* caller with the status message of line 190 set; no exception has left it.
C3_NoExceptionPropagates ==
    (GetDriverRaised \/ (pc = "done" /\ ret.line = 191)) =>
        /\ ret.outcome = "returned"
        /\ ret.table = <<>>
        /\ status_text = "An error occurred"

(* ------------------------------- C4 ------------------------------------- *)
\* C4 as stated: every invocation that is over has created exactly one
\* session and quit it exactly once, and its session is gone.
C4_OneSessionPerInvocation ==
    pc = "done" =>
        /\ calls["get_driver"] = 1
        /\ calls["quit"] = 1
        /\ driver = "quit"

\* C4 amended: get_driver is called at most once per invocation; if it
\* returned, the invocation has created exactly one session and has called
\* driver.quit() on it exactly once when control leaves, on every later exit
\* path (a return or an exception that leaves the function), and the session
\* is gone unless that call itself raised, which leaves the function by its
\* exception; if get_driver raised or was never reached, there is no session
\* and no quit. An invocation holds no session before its own get_driver has
\* returned, and from then until it leaves its session is open and not quit.
C4_SessionReleased ==
    /\ calls["get_driver"] <= 1
    /\ calls["quit"] <= 1
    /\ pc = "done" =>
          IF GetDriverRaised \/ calls["get_driver"] = 0
          THEN /\ ret.outcome = "raised"
               /\ driver = "unbound"
               /\ calls["quit"] = 0
          ELSE /\ calls["get_driver"] = 1
               /\ calls["quit"] = 1
               /\ driver \in {"quit", "quit_raised"}
               /\ driver = "quit_raised" => ret.outcome = "raised"
               /\ ret.outcome = "returned" => driver = "quit"
    /\ pc \in {"idle", "setup", "get_driver"} =>
          /\ driver = "unbound"
          /\ calls["quit"] = 0
    /\ pc \notin {"idle", "done", "setup", "get_driver"} =>
          /\ driver = "open"
          /\ calls["get_driver"] = 1
          /\ calls["quit"] = 0

\* an invocation has ended in the error handler after an earlier one that
\* returned records; its session was quit once and is gone
C4_Witness ==
    /\ pc = "done"
    /\ earlier.ret.line = 197
    /\ ret.line = 191
    /\ calls["store_click"] = 1
    /\ calls["quit"] = 1
    /\ driver = "quit"

(* ------------------------------- C5 ------------------------------------- *)
\* C5: when no store's street text contains the address of the invocation
\* (before the first invocation there is none), no downstream step
\* ever runs (store click, coupons page, coupon entries) and what is returned
\* is the empty frame of line 124.
C5_NotFoundStopsPipeline ==
    (\A k \in 1..Len(site.stores) :
         ~( /\ site.stores[k].hasStreet
            /\ FoldedContains(target_address, site.stores[k].street) ))
    =>  /\ calls["store_click"] = 0
        /\ calls["coupons_tile"] = 0
        /\ calls["find_coupon"] = 0
        /\ calls["coupon_wait"] = 0
        /\ j = 0
        /\ coupon_containers = <<>>
        /\ pc \notin {"store_click", "coupons_tile", "find_coupon", "coupon_wait",
                      "coupon_loop"}
        /\ (pc = "done" /\ ret.outcome = "returned") => ret.table = <<>>
        /\ (pc = "done" /\ MatchingDone /\ ret.outcome = "returned") => ret.line = 124

\* the list was searched to its end, nothing matched, line 124 returned
C5_Witness ==
    /\ pc = "done"
    /\ ret.line = 124
    /\ Len(store_containers) = 2
    /\ \A k \in 1..2 : store_containers[k].hasStreet
    /\ \A k \in 1..2 : ~StreetContains(store_containers[k])


(* ------------------------------- C6 ------------------------------------- *)
\* C6: a malformed coupon entry (description or anchor unreadable) is skipped
\* with the message of line 184 and nothing else changes: the records so far
\* are kept, the loop goes on with the next entry, the session stays open
\* (the step meant is the entry's own, not a BaseException raised there by
\* line 184, nor driver.quit() raising on the way out);
\* and a completed invocation has passed every entry and returns one record
\* for each entry that is neither malformed nor without '%'.
C6_EntryFailureSkipsOnlyThatEntry ==
    /\ [][ ( /\ pc = "coupon_loop"
             /\ j <= Len(coupon_containers)
             /\ Malformed(coupon_containers[j])
             /\ ret'.outcome # "raised" )
           => ( /\ pc' = "coupon_loop"
                /\ j' = j + 1
                /\ coupons_data' = coupons_data
                /\ status_text' = "Error processing a coupon"
                /\ driver' = driver
                /\ ret' = ret ) ]_vars
    /\ [](Completed =>
            /\ j = Len(coupon_containers) + 1
            /\ Len(ret.table) =
                 Cardinality({ k \in 1..Len(coupon_containers) :
                                 /\ ~Malformed(coupon_containers[k])
                                 /\ PercentEntry(coupon_containers[k]) }))

\* a malformed first entry, then a good one whose record is returned
C6_Witness ==
    /\ Completed
    /\ Len(coupon_containers) = 2
    /\ Malformed(coupon_containers[1])
    /\ Len(ret.table) = 1
    /\ ret.table[1].description = coupon_containers[2].desc

(* ------------------------------- C7 ------------------------------------- *)
\* C7: the k-th record collected carries the price text of the k-th
\* qualifying entry of the listing when that entry has a price element, and
\* "N/A" when it has none; an entry without a price is recorded all the same:
\* while the loop runs there is one record for each qualifying entry passed,
\* and a completed invocation returns one for each qualifying entry.
C7_PriceOrNA ==
    pc \in {"coupon_loop", "done"} /\ coupon_containers # <<>> =>
        LET Q == SelectSeq(coupon_containers, Qualifies)
            P == SelectSeq(SubSeq(coupon_containers, 1, j - 1), Qualifies)
        IN  /\ Len(coupons_data) <= Len(Q)
            /\ \A k \in 1..Len(coupons_data) :
                   coupons_data[k].price =
                       IF Q[k].hasPrice THEN Q[k].price ELSE <<"N", "/", "A">>
            /\ pc = "coupon_loop" => Len(coupons_data) = Len(P)
            /\ Completed => ret.table = coupons_data /\ Len(ret.table) = Len(Q)

\* one record with the price text and one with "N/A" are returned
C7_Witness ==
    /\ Completed
    /\ Len(ret.table) = 2
    /\ ret.table[1].price = <<"$", "5">>
    /\ ~coupon_containers[2].hasPrice
    /\ ret.table[2].price = <<"N", "/", "A">>

(* ------------------------------- C8 ------------------------------------- *)
Stage(p) ==
    CASE p = "idle" -> "Idle"
      [] p \in {"setup", "get_driver", "driver_get", "carryout_option", "city_search",
                "search_button", "store_wait"} -> "Searching"
      [] p \in {"store_loop", "after_store_loop"} -> "StoreMatching"
      [] p \in {"store_click", "coupons_tile", "find_coupon", "coupon_wait"}
             -> "CouponFetching"
      [] p = "coupon_loop" -> "Filtering"
      [] OTHER -> "Done"

Successor(stage) ==
    CASE stage = "Idle" -> "Searching"
      [] stage = "Searching" -> "StoreMatching"
      [] stage = "StoreMatching" -> "CouponFetching"
      [] stage = "CouponFetching" -> "Filtering"
      [] OTHER -> "Done"

\* C8: within one invocation every step stays in its stage, moves to the
\* next stage of Idle -> Searching -> StoreMatching -> CouponFetching ->
\* Filtering -> Done, or goes straight to Done returning an empty result;
\* and no acquisition step runs more than once. (A step ended by the
\* BaseException of a Streamlit call, or by driver.quit() raising in the
\* finally block, is not an acquisition failure and is left aside.)
C8_LinearStages ==
    [][ /\ \A s \in Steps : calls'[s] <= 1
        /\ (pc # "done" /\ ~(ret'.outcome = "raised" /\ ~GetDriverRaised')) =>
              \/ Stage(pc') = Stage(pc)
              \/ Stage(pc') = Successor(Stage(pc))
              \/ /\ Stage(pc') = "Done"
                 /\ ret'.outcome = "returned"
                 /\ ret'.table = <<>> ]_vars

LookupFails(container) ==
    \/ ~container.hasStreet
    \/ /\ FoldedContains(target_address, container.street)
       /\ ~(container.hasButton /\ container.hasCity)

\* C10: a pass of the store loop over a container on which a lookup raises
\* NoSuchElement takes no store, ends nothing (the session stays open,
\* nothing is returned) and goes on with the next container, or leaves the
\* loop when it was the last; the passes meant are those of lines 119-120,
\* not the steps that end the invocation for another reason (the session
\* died, which line 189 takes, or a Streamlit call of the handler raised).
\* While the loop runs no store is taken and every container passed was not
\* matching or not readable; the store taken is one whose street, button
\* (with its id) and city were all read, and the address of the store and of
\* every record is "<street>, <city>" of that container.
C10_SelectedStoreFullyRead ==
    /\ [][ ( /\ pc = "store_loop"
             /\ i <= Len(store_containers)
             /\ LookupFails(store_containers[i])
             /\ ret'.line # 191
             /\ ret'.outcome # "raised" )
           => ( /\ pc' = IF i = Len(store_containers)
                         THEN "after_store_loop" ELSE "store_loop"
                /\ i' = i + 1
                /\ ~target_store'.found
                /\ store_containers' = store_containers
                /\ driver' = "open"
                /\ ret' = ret ) ]_vars
    /\ [](pc = "store_loop" =>
            /\ ~target_store.found
            /\ i <= Len(store_containers)
            /\ \A k \in 1..(i - 1) :
                   ~(StreetContains(store_containers[k]) /\ Readable(store_containers[k])))
    /\ [](target_store.found =>
            LET container == store_containers[target_store.container]
                address == container.street \o <<",", " ">> \o container.city
            IN  /\ Readable(container)
                /\ StreetContains(container)
                /\ target_store.id = container.id
                /\ target_store.address = address
                /\ store_full_address = address
                /\ pc \in {"coupon_loop", "done"} =>
                      \A k \in 1..Len(coupons_data) : coupons_data[k].address = address
                /\ pc = "done" =>
                      \A k \in 1..Len(ret.table) : ret.table[k].address = address)

\* the first container matches but has no city element; the second, another
\* store, is taken and its id and address are those on the record returned
C10_Witness ==
    /\ Completed
    /\ Len(store_containers) = 2
    /\ StreetContains(store_containers[1])
    /\ ~store_containers[1].hasCity
    /\ target_store.found
    /\ target_store.container = 2
    /\ target_store.id = "4002"
    /\ target_store.id # store_containers[1].id
    /\ Len(ret.table) >= 1
    /\ ret.table[1].address = <<"B", "U+00C9", ",", " ", "L">>

====
